---------------------------- MODULE Spec2Model ----------------------------
(***************************************************************************)
(* Lap-table aggregations and chart renderers of the testing-analysis      *)
(* modules distributions.py, long_runs.py and reliability.py.              *)
(*                                                                         *)
(* A data frame is a sequence of rows (records); a missing numeric value   *)
(* is NaN.  Lap times are integers; means and medians are exact rationals  *)
(* num/den (den = 0 is NaN); a standard deviation is kept as the square    *)
(* root of an exact rational, so that no rounding is introduced.           *)
(***************************************************************************)
EXTENDS Integers, Sequences, FiniteSets, TLC

VARIABLES
    laps,       \* the lap table handed to the module's functions
    long_runs,  \* the long-run table the caller holds (identify_long_runs' result)
    out,        \* the last call: [op |-> name, ...its arguments and result]
    pc,         \* generate_all: [module, step, status]
    figures     \* generate_all: the figures dict built so far

vars == <<laps, long_runs, out, pc, figures>>

--------------------------------------------------------------------------
(* Bounds of the model.                                                    *)

MaxLaps == 3        \* rows of the lap table
MaxRuns == 4        \* rows of a caller-supplied long-run table
MaxMinLaps == 3     \* largest min_laps a caller passes
LONG_RUN_MIN_LAPS == 2   \* config.LONG_RUN_MIN_LAPS (config.py is not part of src/)

--------------------------------------------------------------------------
(* Values.                                                                 *)

NaN == -1000                    \* a missing integer value (None / NaN)
NoCompound == "NaN"             \* a missing Compound

\* Python's string order on the names that occur, as their rank.
Alphabet == <<"Alpine", "Ferrari", "HARD", "INTER", "MEDIUM", "McLaren", "NaN", "SOFT", "WET", "a", "b">>
StrRank(s) == CHOOSE i \in 1..Len(Alphabet) : Alphabet[i] = s
StrLT(a, b) == StrRank(a) < StrRank(b)

Rat(n, d) == [num |-> n, den |-> d]
RatNaN == Rat(0, 0)
IsNaNRat(q) == q.den = 0
RatOf(i) == IF i = NaN THEN RatNaN ELSE Rat(i, 1)
RatLE(a, b) == a.num * b.den <= b.num * a.den
RatEq(a, b) == ~IsNaNRat(a) /\ ~IsNaNRat(b) /\ a.num * b.den = b.num * a.den
RatSub(a, b) ==
    IF IsNaNRat(a) \/ IsNaNRat(b) THEN RatNaN
    ELSE Rat(a.num * b.den - b.num * a.den, a.den * b.den)
RatDiv(a, b) ==
    IF IsNaNRat(a) \/ IsNaNRat(b) \/ b.num = 0 THEN RatNaN
    ELSE IF b.num > 0 THEN Rat(a.num * b.den, a.den * b.num)
    ELSE Rat(-(a.num * b.den), -(a.den * b.num))
RatAdd(a, b) ==
    IF IsNaNRat(a) \/ IsNaNRat(b) THEN RatNaN
    ELSE Rat(a.num * b.den + b.num * a.den, a.den * b.den)
RatMul(a, b) ==
    IF IsNaNRat(a) \/ IsNaNRat(b) THEN RatNaN
    ELSE Rat(a.num * b.num, a.den * b.den)

\* The non-negative square root of the rational rad (NaN when rad is NaN).
Root(q) == [rad |-> q]
RootNaN == Root(RatNaN)
IsNaNRoot(r) == IsNaNRat(r.rad)
\* sqrt(v) / m for m > 0 is sqrt(v / m^2); NaN propagates.
RootDivRat(r, m) == Root(RatDiv(r.rad, RatMul(m, m)))

--------------------------------------------------------------------------
(* Sequences.                                                              *)

RECURSIVE SumSeq(_)
SumSeq(s) == IF s = <<>> THEN 0 ELSE s[1] + SumSeq(Tail(s))

RECURSIVE SumSquares(_)
SumSquares(s) == IF s = <<>> THEN 0 ELSE s[1] * s[1] + SumSquares(Tail(s))

RECURSIVE Concat(_)
Concat(ss) == IF ss = <<>> THEN <<>> ELSE ss[1] \o Concat(Tail(ss))

Range(s) == {s[i] : i \in DOMAIN s}

\* The stable sort order of rows 1..n, where le[i][j] says that row i need not
\* come after row j: rows are taken in turn and each is placed after the rows
\* already placed that need not come after it.
InsertAt(p, k, le) ==
    LET n == Cardinality({i \in 1..Len(p) : \A j \in 1..i : le[p[j]][k]})
    IN  SubSeq(p, 1, n) \o <<k>> \o SubSeq(p, n + 1, Len(p))

StableOrder(n, le) ==
    LET f[k \in 0..n] == IF k = 0 THEN <<>> ELSE InsertAt(f[k - 1], k, le)
    IN  f[n]

SortRows(s, le) ==
    LET p == StableOrder(Len(s), le)
    IN  [i \in DOMAIN s |-> s[p[i]]]

\* The strings of the set S in Python's sorted() order.
SortedStrings(S) ==
    [k \in 1..Cardinality(S) |->
        CHOOSE x \in S : Cardinality({y \in S : StrLT(y, x)}) = k - 1]

\* The integers of the set S in increasing order.
SortedInts(S) ==
    [k \in 1..Cardinality(S) |->
        CHOOSE x \in S : Cardinality({y \in S : y < x}) = k - 1]

\* The distinct elements of s in order of first appearance (Series.unique).
RECURSIVE Unique(_)
Unique(s) ==
    IF s = <<>> THEN <<>>
    ELSE LET u == Unique(SubSeq(s, 1, Len(s) - 1))
         IN  IF s[Len(s)] \in Range(u) THEN u ELSE Append(u, s[Len(s)])

--------------------------------------------------------------------------
(* Series statistics (pandas skips missing values).                        *)

DropNa(s) == SelectSeq(s, LAMBDA x : x # NaN)
MinOf(s) == IF s = <<>> THEN NaN ELSE CHOOSE x \in Range(s) : \A y \in Range(s) : x <= y
MaxOf(s) == IF s = <<>> THEN NaN ELSE CHOOSE x \in Range(s) : \A y \in Range(s) : x >= y
MeanOf(s) == Rat(SumSeq(s), Len(s))
MedianOf(s) ==
    LET t == SortRows(s, [i \in DOMAIN s |-> [j \in DOMAIN s |-> s[i] <= s[j]]])
        n == Len(t)
    IN  IF n = 0 THEN RatNaN
        ELSE IF n % 2 = 1 THEN Rat(t[(n + 1) \div 2], 1)
        ELSE Rat(t[n \div 2] + t[n \div 2 + 1], 2)
\* The sample standard deviation (ddof = 1): undefined below two values.
StdOf(s) ==
    LET n == Len(s)
    IN  IF n < 2 THEN RootNaN
        ELSE Root(Rat(n * SumSquares(s) - SumSeq(s) * SumSeq(s), n * (n - 1)))

\* sort_values' order of a rational key: ascending, NaN last.
RatAscNaLast(a, b) ==
    IF IsNaNRat(b) THEN TRUE ELSE IF IsNaNRat(a) THEN FALSE ELSE RatLE(a, b)

--------------------------------------------------------------------------
(* The lap table.                                                          *)

Lap(team, driver, day, stint, lapno, compound, time) ==
    [Team |-> team, Driver |-> driver, Day |-> day, Stint |-> stint,
     LapNumber |-> lapno, Compound |-> compound, LapTimeSeconds |-> time]

TeamsIn(t) == {t[i].Team : i \in DOMAIN t}
DaysIn(t) == {t[i].Day : i \in DOMAIN t}
TeamRows(t, team) == SelectSeq(t, LAMBDA r : r.Team = team)
TimesOf(t) == [i \in DOMAIN t |-> t[i].LapTimeSeconds]

\* groupby("Team"): the group keys in sorted order.
GroupTeams(t) == SortedStrings(TeamsIn(t))

--------------------------------------------------------------------------
(* distributions.py                                                        *)

TeamStatsRow(t, team) ==
    LET v == DropNa(TimesOf(TeamRows(t, team)))
    IN  [Team |-> team, min |-> MinOf(v), median |-> MedianOf(v), mean |-> MeanOf(v),
         std |-> StdOf(v), count |-> Len(v),
         headline_gap |-> RatSub(MedianOf(v), RatOf(MinOf(v)))]

compute_team_stats(t) ==
    LET g == GroupTeams(t)
        stats == [i \in DOMAIN g |-> TeamStatsRow(t, g[i])]
    IN  SortRows(stats, [i \in DOMAIN stats |-> [j \in DOMAIN stats |->
                            RatAscNaLast(stats[i].median, stats[j].median)]])

--------------------------------------------------------------------------
(* long_runs.py                                                            *)

StintKey(r) == <<r.Team, r.Driver, r.Day, r.Stint>>

\* The order of groupby's keys (Team, Driver, Day, Stint): lexicographic.
KeyLT(a, b) ==
    \/ StrLT(a[1], b[1])
    \/ a[1] = b[1] /\ StrLT(a[2], b[2])
    \/ a[1] = b[1] /\ a[2] = b[2] /\ a[3] < b[3]
    \/ a[1] = b[1] /\ a[2] = b[2] /\ a[3] = b[3] /\ a[4] < b[4]

SortedKeys(S) ==
    [k \in 1..Cardinality(S) |->
        CHOOSE x \in S : Cardinality({y \in S : KeyLT(y, x)}) = k - 1]

\* groupby(["Team", "Driver", "Day", "Stint"]): the group keys in sorted order.
GroupStints(t) == SortedKeys({StintKey(t[i]) : i \in DOMAIN t})

StintRows(t, key) == SelectSeq(t, LAMBDA r : StintKey(r) = key)

\* min_laps is <<>> when the caller passes none and <<n>> when it passes n.
\* "min_laps or LONG_RUN_MIN_LAPS": None and 0 are both falsy.
Threshold(min_laps) ==
    IF min_laps = <<>> \/ min_laps[1] = 0 THEN LONG_RUN_MIN_LAPS ELSE min_laps[1]

IsValidTime(x) == x # NaN /\ x > 0

\* laps.dropna(subset=["LapTimeSeconds"]) and then LapTimeSeconds > 0.
ValidLaps(t) == SelectSeq(t, LAMBDA r : IsValidTime(r.LapTimeSeconds))

\* GroupBy.first: the first value of the group that is not missing.
FirstCompound(g) ==
    LET c == SelectSeq(g, LAMBDA r : r.Compound # NoCompound)
    IN  IF c = <<>> THEN NoCompound ELSE c[1].Compound

StintAgg(valid, key) ==
    LET v == DropNa(TimesOf(StintRows(valid, key)))
    IN  [Team |-> key[1], Driver |-> key[2], Day |-> key[3], Stint |-> key[4],
         StintLaps |-> Len(v), Compound |-> FirstCompound(StintRows(valid, key)),
         MeanTime |-> MeanOf(v), StdTime |-> StdOf(v),
         MinTime |-> MinOf(v), MaxTime |-> MaxOf(v)]

\* The variant that fills an undefined CoV with 0.
CoVZeroFilled(run) ==
    IF IsNaNRoot(run.StdTime) THEN Root(Rat(0, 1)) ELSE RootDivRat(run.StdTime, run.MeanTime)

CoVOf(run) == RootDivRat(run.StdTime, run.MeanTime)
RangeOf(run) == run.MaxTime - run.MinTime

WithCoVRange(run) ==
    [Team |-> run.Team, Driver |-> run.Driver, Day |-> run.Day, Stint |-> run.Stint,
     StintLaps |-> run.StintLaps, Compound |-> run.Compound,
     MeanTime |-> run.MeanTime, StdTime |-> run.StdTime,
     MinTime |-> run.MinTime, MaxTime |-> run.MaxTime,
     CoV |-> CoVOf(run), Range |-> RangeOf(run)]

identify_long_runs(t, min_laps) ==
    LET threshold == Threshold(min_laps)
        valid == ValidLaps(t)
        g == GroupStints(valid)
        stints == [i \in DOMAIN g |-> StintAgg(valid, g[i])]
        kept == SelectSeq(stints, LAMBDA r : r.StintLaps >= threshold)
    IN  [i \in DOMAIN kept |-> WithCoVRange(kept[i])]

\* The mask of get_long_run_laps: the run's laps with a valid time.
RunMask(r, run) ==
    /\ r.Team = run.Team
    /\ r.Driver = run.Driver
    /\ r.Day = run.Day
    /\ r.Stint = run.Stint
    /\ r.LapTimeSeconds # NaN
    /\ r.LapTimeSeconds > 0

\* sort_values' order of an integer key: ascending, missing values last.
IntAscNaLast(a, b) == IF b = NaN THEN TRUE ELSE IF a = NaN THEN FALSE ELSE a <= b

\* The variant that keeps the table's order.
KeepTableOrder(s) == s

SortByLapNumber(s) ==
    SortRows(s, [i \in DOMAIN s |-> [j \in DOMAIN s |->
                    IntAscNaLast(s[i].LapNumber, s[j].LapNumber)]])

\* The variant that centres on the median.
StintMedian(s) == MedianOf(DropNa(TimesOf(s)))

StintMean(s) == MeanOf(DropNa(TimesOf(s)))

\* One run's laps, sorted, numbered from 1 and centred on their own mean.
RunLapRows(t, run) ==
    LET stint_laps == SortByLapNumber(SelectSeq(t, LAMBDA r : RunMask(r, run)))
    IN  [i \in DOMAIN stint_laps |->
            [Team |-> stint_laps[i].Team, Driver |-> stint_laps[i].Driver,
             Day |-> stint_laps[i].Day, Stint |-> stint_laps[i].Stint,
             LapNumber |-> stint_laps[i].LapNumber,
             Compound |-> stint_laps[i].Compound,
             LapTimeSeconds |-> stint_laps[i].LapTimeSeconds,
             StintLapNumber |-> i,
             DeltaFromMean |-> RatSub(RatOf(stint_laps[i].LapTimeSeconds),
                                      StintMean(stint_laps))]]

LapColumns ==
    {"Team", "Driver", "Day", "Stint", "LapNumber", "Compound", "LapTimeSeconds"}

\* A data frame whose columns matter: pd.DataFrame() has none.
EmptyFrame == [columns |-> {}, rows |-> <<>>]
IsEmptyFrame(f) == f.columns = {} \/ f.rows = <<>>

get_long_run_laps(t, runs) ==
    LET result == [i \in DOMAIN runs |-> RunLapRows(t, runs[i])]
    IN  IF result = <<>> THEN EmptyFrame
        ELSE [columns |-> LapColumns \cup {"StintLapNumber", "DeltaFromMean"},
              rows |-> Concat(result)]

\* The median of a column of square roots, as the two middle radicands lo and
\* hi: its value is (sqrt(lo) + sqrt(hi)) / 2 (lo = hi for an odd count).
MedianOfRoots(s) ==
    LET t == SortRows(s, [i \in DOMAIN s |-> [j \in DOMAIN s |-> RatLE(s[i].rad, s[j].rad)]])
        n == Len(t)
    IN  IF n = 0 THEN [lo |-> RatNaN, hi |-> RatNaN]
        ELSE IF n % 2 = 1 THEN [lo |-> t[(n + 1) \div 2].rad, hi |-> t[(n + 1) \div 2].rad]
        ELSE [lo |-> t[n \div 2].rad, hi |-> t[n \div 2 + 1].rad]

\* sqrt(A) + sqrt(B) <= sqrt(C) + sqrt(D) for naturals, by squaring twice.
SumRootsLE(A, B, C, D) ==
    LET K == (C + D) - (A + B)
        X == 4 * A * B
        Y == 4 * C * D
    IN  IF K >= 0
        THEN \/ X <= Y
             \/ X - K * K - Y <= 0
             \/ (X - K * K - Y) * (X - K * K - Y) <= 4 * K * K * Y
        ELSE /\ Y - X - K * K >= 0
             /\ 4 * K * K * X <= (Y - X - K * K) * (Y - X - K * K)

\* m1 <= m2 for two medians of square roots that are not NaN.
MedianRootLE(m1, m2) ==
    IF RatLE(m1.lo, m2.lo) /\ RatLE(m1.hi, m2.hi) THEN TRUE
    ELSE IF RatLE(m2.lo, m1.lo) /\ RatLE(m2.hi, m1.hi) THEN FALSE
    ELSE LET F == m1.lo.den * m1.hi.den * m2.lo.den * m2.hi.den
         IN  SumRootsLE(m1.lo.num * (F \div m1.lo.den), m1.hi.num * (F \div m1.hi.den),
                        m2.lo.num * (F \div m2.lo.den), m2.hi.num * (F \div m2.hi.den))

\* sort_values("MedianCoV"): ascending, NaN last.
MedianCoVAsc(a, b) ==
    IF IsNaNRat(b.lo) THEN TRUE ELSE IF IsNaNRat(a.lo) THEN FALSE ELSE MedianRootLE(a, b)

ConsistencyRow(runs, team) ==
    LET g == TeamRows(runs, team)
        cov == SelectSeq([i \in DOMAIN g |-> g[i].CoV], LAMBDA c : ~IsNaNRoot(c))
    IN  [Team |-> team,
         \* the mean of the roots: (the sum of sqrt(rad) over roots) / n
         MeanCoV |-> [roots |-> [i \in DOMAIN cov |-> cov[i].rad], n |-> Len(cov)],
         MedianCoV |-> MedianOfRoots(cov),
         NumLongRuns |-> Len(cov),
         MeanRange |-> MeanOf([i \in DOMAIN g |-> g[i].Range])]

compute_consistency_by_team(runs) ==
    LET g == GroupTeams(runs)
        rows == [i \in DOMAIN g |-> ConsistencyRow(runs, g[i])]
    IN  SortRows(rows, [i \in DOMAIN rows |-> [j \in DOMAIN rows |->
                           MedianCoVAsc(rows[i].MedianCoV, rows[j].MedianCoV)]])

--------------------------------------------------------------------------
(* reliability.py                                                          *)

\* The variant that counts the team's laps of every day.
GroupSizeOfTeam(t, team, day) ==
    Len(SelectSeq(t, LAMBDA r : r.Team = team))

\* groupby(["Team", "Day"]).size() of one group.
GroupSize(t, team, day) ==
    Len(SelectSeq(t, LAMBDA r : r.Team = team /\ r.Day = day))

\* pivot(index="Team", columns="Day", values="Laps"): a (team, day) pair that
\* is no group has a missing cell.
Pivot(t) ==
    [index |-> SortedStrings(TeamsIn(t)),
     columns |-> SortedInts(DaysIn(t)),
     values |-> [team \in TeamsIn(t) |-> [day \in DaysIn(t) |->
                   IF GroupSize(t, team, day) = 0 THEN RatNaN
                   ELSE Rat(GroupSize(t, team, day), 1)]]]

FillNa0(grid) ==
    [grid EXCEPT !.values = [team \in DOMAIN grid.values |-> [day \in DOMAIN grid.values[team] |->
        IF IsNaNRat(grid.values[team][day]) THEN Rat(0, 1) ELSE grid.values[team][day]]]]

AsTypeInt(grid) ==
    [grid EXCEPT !.values = [team \in DOMAIN grid.values |-> [day \in DOMAIN grid.values[team] |->
        grid.values[team][day].num \div grid.values[team][day].den]]]

compute_laps_per_team_day(t) == AsTypeInt(FillNa0(Pivot(t)))

\* The variant that sorts ascending.
AscByTotalLaps(rows) ==
    SortRows(rows, [i \in DOMAIN rows |-> [j \in DOMAIN rows |->
                       rows[i].TotalLaps <= rows[j].TotalLaps]])

\* sort_values("TotalLaps", ascending=False).
DescByTotalLaps(rows) ==
    SortRows(rows, [i \in DOMAIN rows |-> [j \in DOMAIN rows |->
                       rows[i].TotalLaps >= rows[j].TotalLaps]])

compute_total_laps(t) ==
    LET g == GroupTeams(t)
        totals == [i \in DOMAIN g |-> [Team |-> g[i], TotalLaps |-> Len(TeamRows(t, g[i]))]]
    IN  DescByTotalLaps(totals)

StintCounts(t) ==
    LET g == GroupStints(t)
    IN  [i \in DOMAIN g |->
            [Team |-> g[i][1], Driver |-> g[i][2], Day |-> g[i][3], Stint |-> g[i][4],
             StintLaps |-> Len(DropNa([k \in DOMAIN StintRows(t, g[i]) |->
                                          StintRows(t, g[i])[k].LapNumber]))]]

StintSummaryRow(stints, team) ==
    LET g == TeamRows(stints, team)
        n == [i \in DOMAIN g |-> g[i].StintLaps]
    IN  [Team |-> team,
         TotalStints |-> Len(DropNa([i \in DOMAIN g |-> g[i].Stint])),
         MaxStintLength |-> MaxOf(n),
         MeanStintLength |-> MeanOf(n)]

compute_stint_summary(t) ==
    LET stints == StintCounts(t)
        g == GroupTeams(stints)
        summary == [i \in DOMAIN g |-> StintSummaryRow(stints, g[i])]
    IN  SortRows(summary, [i \in DOMAIN summary |-> [j \in DOMAIN summary |->
                              summary[i].TotalStints >= summary[j].TotalStints]])

--------------------------------------------------------------------------
(* The chart renderers.  A renderer returns None or a figure; the model    *)
(* keeps of a figure the order in which its categories are laid out, and   *)
(* of either the collaborator calls made up to the return.                 *)

NoFigure(calls) == [kind |-> "None", calls |-> calls]
IsFigure(r) == r.kind = "figure"

\* groupby("Team")["LapTimeSeconds"].median().sort_values().index.tolist()
TeamsByMedian(t) ==
    LET g == GroupTeams(t)
        med == [i \in DOMAIN g |-> MedianOf(DropNa(TimesOf(TeamRows(t, g[i]))))]
    IN  SortRows(g, [i \in DOMAIN g |-> [j \in DOMAIN g |-> RatAscNaLast(med[i], med[j])]])

\* The teams whose violin is drawn: those with a lap time that is not missing.
ViolinsDrawn(t, teams) ==
    SelectSeq(teams, LAMBDA team : DropNa(TimesOf(TeamRows(t, team))) # <<>>)

plot_team_violins(t) ==
    [kind |-> "figure", chart |-> "team_violins",
     calls |-> <<"apply_theme", "build_color_maps", "create_figure", "add_watermark">>,
     xticklabels |-> TeamsByMedian(t),
     violins |-> ViolinsDrawn(t, TeamsByMedian(t))]

CompoundColumn(rows) == [i \in DOMAIN rows |-> rows[i].Compound]
DropNaCompounds(s) == SelectSeq(s, LAMBDA c : c # NoCompound)

\* [c for c in ["SOFT", "MEDIUM", "HARD"] if c in laps["Compound"].unique()],
\* and every compound present, as first met, when that list is empty.
CompoundPanels(t) ==
    LET listed == SelectSeq(<<"SOFT", "MEDIUM", "HARD">>,
                            LAMBDA c : c \in Range(Unique(CompoundColumn(t))))
    IN  IF listed = <<>> THEN Unique(DropNaCompounds(CompoundColumn(t))) ELSE listed

CompoundRows(rows, compound) == SelectSeq(rows, LAMBDA r : r.Compound = compound)

\* The variant without the early return for no compound.
plot_compound_distributions_unguarded(t) ==
    [kind |-> "figure", chart |-> "compound_distributions",
     calls |-> <<"apply_theme", "build_color_maps", "create_figure", "add_watermark">>,
     panels |-> CompoundPanels(t),
     xticklabels |-> [i \in DOMAIN CompoundPanels(t) |->
                         TeamsByMedian(CompoundRows(t, CompoundPanels(t)[i]))]]

plot_compound_distributions(t) ==
    LET compounds == CompoundPanels(t)
    IN  IF Len(compounds) = 0 THEN NoFigure(<<"apply_theme", "build_color_maps">>)
        ELSE [kind |-> "figure", chart |-> "compound_distributions",
              calls |-> <<"apply_theme", "build_color_maps", "create_figure", "add_watermark">>,
              panels |-> compounds,
              xticklabels |-> [i \in DOMAIN compounds |->
                                  TeamsByMedian(CompoundRows(t, compounds[i]))]]

plot_headline_vs_median(t) ==
    [kind |-> "figure", chart |-> "headline_vs_median",
     calls |-> <<"apply_theme", "build_color_maps", "create_figure", "add_watermark">>,
     annotations |-> [i \in DOMAIN compute_team_stats(t) |-> compute_team_stats(t)[i].Team]]

\* sorted(run_laps["Team"].unique())
LegendTeams(rows) == SortedStrings(TeamsIn(rows))

plot_long_run_traces(t, runs) ==
    LET run_laps == get_long_run_laps(t, runs)
    IN  IF IsEmptyFrame(run_laps) THEN NoFigure(<<"apply_theme", "build_color_maps">>)
        ELSE [kind |-> "figure", chart |-> "long_run_traces",
              calls |-> <<"apply_theme", "build_color_maps", "create_figure", "add_watermark">>,
              traces |-> GroupStints(run_laps.rows),
              legend |-> LegendTeams(run_laps.rows)]

plot_consistency_rankings(runs) ==
    LET consistency == compute_consistency_by_team(runs)
    IN  IF consistency = <<>> THEN NoFigure(<<"apply_theme">>)
        ELSE [kind |-> "figure", chart |-> "consistency_rankings",
              calls |-> <<"apply_theme", "create_figure", "add_watermark">>,
              bars |-> [i \in DOMAIN consistency |-> consistency[i].Team],
              labels |-> [i \in DOMAIN consistency |-> consistency[i].NumLongRuns]]

\* The variant that lists the compounds as first met.
LongRunCompoundsAsMet(rows) == Unique(DropNaCompounds(CompoundColumn(rows)))

\* sorted(run_laps["Compound"].dropna().unique())
LongRunCompounds(rows) == SortedStrings(Range(DropNaCompounds(CompoundColumn(rows))))

plot_long_runs_by_compound(t, runs) ==
    LET run_laps == get_long_run_laps(t, runs)
    IN  IF IsEmptyFrame(run_laps) THEN NoFigure(<<"apply_theme", "build_color_maps">>)
        ELSE IF Len(LongRunCompounds(run_laps.rows)) = 0
             THEN NoFigure(<<"apply_theme", "build_color_maps">>)
        ELSE [kind |-> "figure", chart |-> "long_runs_by_compound",
              calls |-> <<"apply_theme", "build_color_maps", "create_figure", "add_watermark">>,
              panels |-> LongRunCompounds(run_laps.rows),
              traces |-> [i \in DOMAIN LongRunCompounds(run_laps.rows) |->
                            GroupStints(CompoundRows(run_laps.rows,
                                                     LongRunCompounds(run_laps.rows)[i]))]]

\* grid["Total"] = grid.sum(axis=1)
GridTotal(grid, team) ==
    SumSeq([i \in DOMAIN grid.columns |-> grid.values[team][grid.columns[i]]])

\* grid.sort_values("Total", ascending=True): the index in its new order.
HeatmapRows(grid) ==
    SortRows(grid.index, [i \in DOMAIN grid.index |-> [j \in DOMAIN grid.index |->
                GridTotal(grid, grid.index[i]) <= GridTotal(grid, grid.index[j])]])

plot_laps_heatmap(t) ==
    LET grid == compute_laps_per_team_day(t)
    IN  [kind |-> "figure", chart |-> "laps_heatmap",
         calls |-> <<"apply_theme", "create_figure", "add_watermark">>,
         yticklabels |-> HeatmapRows(grid),
         xticklabels |-> grid.columns,
         cells |-> [i \in DOMAIN HeatmapRows(grid) |-> [j \in DOMAIN grid.columns |->
                       grid.values[HeatmapRows(grid)[i]][grid.columns[j]]]]]

plot_total_laps_bar(t) ==
    LET totals == compute_total_laps(t)
    IN  [kind |-> "figure", chart |-> "total_laps",
         calls |-> <<"apply_theme", "build_color_maps", "create_figure", "add_watermark">>,
         bars |-> [i \in DOMAIN totals |-> totals[i].Team],
         widths |-> [i \in DOMAIN totals |-> totals[i].TotalLaps]]

plot_stint_lengths(t) ==
    LET summary == compute_stint_summary(t)
        summary_sorted == SortRows(summary, [i \in DOMAIN summary |-> [j \in DOMAIN summary |->
                              IntAscNaLast(summary[i].MaxStintLength, summary[j].MaxStintLength)]])
        summary_sorted2 == SortRows(summary, [i \in DOMAIN summary |-> [j \in DOMAIN summary |->
                              summary[i].TotalStints <= summary[j].TotalStints]])
    IN  [kind |-> "figure", chart |-> "stint_lengths",
         calls |-> <<"apply_theme", "build_color_maps", "create_figure", "add_watermark">>,
         longest |-> [i \in DOMAIN summary_sorted |-> summary_sorted[i].Team],
         counts |-> [i \in DOMAIN summary_sorted2 |-> summary_sorted2[i].Team]]

--------------------------------------------------------------------------
(* The calls.                                                              *)

NoCall == [op |-> "none"]
Idle == [module |-> "none", step |-> 0, status |-> "idle"]

\* Lap tables for the aggregations: each team's driver runs one stint a day;
\* McLaren runs on the first day only.
AggLaps ==
    {Lap(team, "a", day, 1, 1, "SOFT", time) :
        team \in {"Alpine", "Ferrari"}, day \in {1, 2}, time \in {NaN, 0, 1, 2}}
    \cup {Lap("McLaren", "a", 1, 1, 1, "SOFT", time) : time \in {NaN, 1}}

\* Long-run tables a caller hands to compute_consistency_by_team: the columns
\* it reads, with CoV = sqrt(0), sqrt(1), sqrt(4), sqrt(9) or NaN.
AggRuns ==
    {[Team |-> team, CoV |-> Root(rad), Range |-> 1] :
        team \in {"Alpine", "Ferrari"},
        rad \in {RatNaN, Rat(0, 1), Rat(1, 1), Rat(4, 1), Rat(9, 1)}}

Init ==
    /\ laps = <<>>
    /\ long_runs = <<>>
    /\ out = NoCall
    /\ pc = Idle
    /\ figures = <<>>

AddLap(U) ==
    /\ out = NoCall
    /\ pc = Idle
    /\ long_runs = <<>>
    /\ Len(laps) < MaxLaps
    /\ \E r \in U : laps' = Append(laps, r)
    /\ UNCHANGED <<long_runs, out, pc, figures>>

AddRun(U) ==
    /\ out = NoCall
    /\ pc = Idle
    /\ laps = <<>>
    /\ Len(long_runs) < MaxRuns
    /\ \E r \in U : long_runs' = Append(long_runs, r)
    /\ UNCHANGED <<laps, out, pc, figures>>

\* A call of a function of the lap table alone.
Call(result) ==
    /\ out = NoCall
    /\ pc = Idle
    /\ long_runs = <<>>
    /\ out' = result
    /\ UNCHANGED <<laps, long_runs, pc, figures>>

CallTeamStats ==
    Call([op |-> "compute_team_stats", rows |-> compute_team_stats(laps)])

CallLapsPerTeamDay ==
    Call([op |-> "compute_laps_per_team_day", grid |-> compute_laps_per_team_day(laps)])

CallTotalLaps ==
    Call([op |-> "compute_total_laps", rows |-> compute_total_laps(laps)])

CallStintSummary ==
    Call([op |-> "compute_stint_summary", rows |-> compute_stint_summary(laps)])

CallConsistency ==
    /\ out = NoCall
    /\ pc = Idle
    /\ laps = <<>>
    /\ out' = [op |-> "compute_consistency_by_team",
               rows |-> compute_consistency_by_team(long_runs)]
    /\ UNCHANGED <<laps, long_runs, pc, figures>>

NextAgg ==
    \/ AddLap(AggLaps)
    \/ AddRun(AggRuns)
    \/ CallTeamStats
    \/ CallLapsPerTeamDay
    \/ CallTotalLaps
    \/ CallStintSummary
    \/ CallConsistency

SpecAgg == Init /\ [][NextAgg]_vars

\* Lap tables for the renderers: each team's driver runs one stint; the lap
\* times differ on the SOFT compound.
RenderLaps ==
    {Lap(team, "a", 1, 1, 1, "SOFT", time) : team \in {"Alpine", "Ferrari"}, time \in {1, 2}}
    \cup {Lap(team, "a", 1, 1, 1, compound, 1) :
            team \in {"Alpine", "Ferrari"}, compound \in {NoCompound, "HARD", "INTER", "WET"}}

RenderMinLaps == {<<>>, <<1>>}

CallPlotTeamViolins ==
    Call([op |-> "plot_team_violins", result |-> plot_team_violins(laps)])

CallPlotCompoundDistributions ==
    Call([op |-> "plot_compound_distributions", result |-> plot_compound_distributions(laps)])

CallPlotHeadlineVsMedian ==
    Call([op |-> "plot_headline_vs_median", result |-> plot_headline_vs_median(laps)])

CallPlotLapsHeatmap ==
    Call([op |-> "plot_laps_heatmap", result |-> plot_laps_heatmap(laps)])

CallPlotTotalLapsBar ==
    Call([op |-> "plot_total_laps_bar", result |-> plot_total_laps_bar(laps)])

CallPlotStintLengths ==
    Call([op |-> "plot_stint_lengths", result |-> plot_stint_lengths(laps)])

\* The renderers of long_runs.py take the table identify_long_runs returned.
IdentifyForRender ==
    /\ out = NoCall
    /\ pc = Idle
    /\ \E m \in RenderMinLaps :
        /\ long_runs' = identify_long_runs(laps, m)
        /\ out' = [op |-> "identify_long_runs", min_laps |-> m]
    /\ UNCHANGED <<laps, pc, figures>>

CallLongRunRenderer(result) ==
    /\ out.op = "identify_long_runs"
    /\ out' = result
    /\ UNCHANGED <<laps, long_runs, pc, figures>>

CallPlotLongRunTraces ==
    CallLongRunRenderer([op |-> "plot_long_run_traces",
                         result |-> plot_long_run_traces(laps, long_runs)])

CallPlotConsistencyRankings ==
    CallLongRunRenderer([op |-> "plot_consistency_rankings",
                         result |-> plot_consistency_rankings(long_runs)])

CallPlotLongRunsByCompound ==
    CallLongRunRenderer([op |-> "plot_long_runs_by_compound",
                         result |-> plot_long_runs_by_compound(laps, long_runs)])

NextRender ==
    \/ AddLap(RenderLaps)
    \/ CallPlotTeamViolins
    \/ CallPlotCompoundDistributions
    \/ CallPlotHeadlineVsMedian
    \/ CallPlotLapsHeatmap
    \/ CallPlotTotalLapsBar
    \/ CallPlotStintLengths
    \/ IdentifyForRender
    \/ CallPlotLongRunTraces
    \/ CallPlotConsistencyRankings
    \/ CallPlotLongRunsByCompound

SpecRender == Init /\ [][NextRender]_vars

\* Lap tables for generate_all.
GenLaps ==
    {Lap(team, "a", 1, 1, 1, compound, time) :
        team \in {"Alpine", "Ferrari"}, compound \in {NoCompound, "SOFT"}, time \in {1, 2}}

Modules == {"distributions", "long_runs", "reliability"}

\* The chart names of a module's generate_all, in the order it fills them.
ChartKeys(m) ==
    IF m = "distributions" THEN <<"team_violins", "compound_distributions", "headline_vs_median">>
    ELSE IF m = "long_runs" THEN <<"long_run_traces", "consistency_rankings", "long_runs_by_compound">>
    ELSE <<"laps_heatmap", "total_laps", "stint_lengths">>

\* What the renderer behind a chart name returns when it returns.
Render(key) ==
    CASE key = "team_violins" -> plot_team_violins(laps)
      [] key = "compound_distributions" -> plot_compound_distributions(laps)
      [] key = "headline_vs_median" -> plot_headline_vs_median(laps)
      [] key = "long_run_traces" -> plot_long_run_traces(laps, long_runs)
      [] key = "consistency_rankings" -> plot_consistency_rankings(long_runs)
      [] key = "long_runs_by_compound" -> plot_long_runs_by_compound(laps, long_runs)
      [] key = "laps_heatmap" -> plot_laps_heatmap(laps)
      [] key = "total_laps" -> plot_total_laps_bar(laps)
      [] key = "stint_lengths" -> plot_stint_lengths(laps)

\* The variant that stores a figure only.
StoreIfFigure(figs, key, result) ==
    IF IsFigure(result) THEN figs @@ (key :> result) ELSE figs

\* figures[key] = result
StoreFigure(figs, key, result) == (key :> result) @@ figs

\* generate_all(laps) is entered: figures = {} (and, in long_runs.py,
\* long_runs = identify_long_runs(laps)).
GenerateAllStarts ==
    /\ out = NoCall
    /\ pc = Idle
    /\ long_runs = <<>>
    /\ \E m \in Modules :
        /\ pc' = [module |-> m, step |-> 0, status |-> "running", invoked |-> <<>>]
        /\ long_runs' = IF m = "long_runs" THEN identify_long_runs(laps, <<>>) ELSE long_runs
    /\ figures' = <<>>
    /\ UNCHANGED <<laps, out>>

\* The next renderer is invoked and returns: its result is stored under its key.
RendererReturns ==
    /\ pc.status = "running"
    /\ pc.step < 3
    /\ LET key == ChartKeys(pc.module)[pc.step + 1]
       IN  /\ figures' = StoreFigure(figures, key, Render(key))
           /\ pc' = [pc EXCEPT !.step = pc.step + 1, !.invoked = Append(pc.invoked, key)]
    /\ UNCHANGED <<laps, long_runs, out>>

\* The next renderer is invoked and raises (its plotting or table library
\* does): nothing catches it, generate_all is left and its dict is lost.
RendererRaises ==
    /\ pc.status = "running"
    /\ pc.step < 3
    /\ LET key == ChartKeys(pc.module)[pc.step + 1]
       IN  /\ pc' = [pc EXCEPT !.status = "raised", !.invoked = Append(pc.invoked, key)]
           /\ out' = [op |-> "generate_all", module |-> pc.module, raised |-> key]
    /\ figures' = <<>>
    /\ UNCHANGED <<laps, long_runs>>

\* return figures
GenerateAllReturns ==
    /\ pc.status = "running"
    /\ pc.step = 3
    /\ pc' = [pc EXCEPT !.status = "returned"]
    /\ out' = [op |-> "generate_all", module |-> pc.module, returned |-> figures]
    /\ UNCHANGED <<laps, long_runs, figures>>

NextGen ==
    \/ AddLap(GenLaps)
    \/ GenerateAllStarts
    \/ RendererReturns
    \/ RendererRaises
    \/ GenerateAllReturns

SpecGen == Init /\ [][NextGen]_vars

\* Stints that differ from the first in one key column or in all.
StintKeys ==
    {<<"Alpine", "a", 1, 1>>, <<"Alpine", "a", 1, 2>>, <<"Ferrari", "b", 1, 1>>}

RunLaps ==
    {Lap(k[1], k[2], k[3], k[4], lapno, "SOFT", time) :
        k \in StintKeys, lapno \in {1, 2}, time \in {NaN, 0, 1, 2}}
    \ {Lap("Ferrari", "b", 1, 1, 2, "SOFT", time) : time \in {NaN, 0, 1, 2}}

MinLapsArgs == {<<>>} \cup {<<n>> : n \in 0..MaxMinLaps}

CallIdentifyLongRuns ==
    /\ out = NoCall
    /\ pc = Idle
    /\ \E m \in MinLapsArgs :
        /\ long_runs' = identify_long_runs(laps, m)
        /\ out' = [op |-> "identify_long_runs", min_laps |-> m]
    /\ UNCHANGED <<laps, pc, figures>>

CallGetLongRunLaps ==
    /\ out.op = "identify_long_runs"
    /\ out' = [op |-> "get_long_run_laps",
               frame |-> get_long_run_laps(laps, long_runs)]
    /\ UNCHANGED <<laps, long_runs, pc, figures>>

Next == AddLap(RunLaps) \/ CallIdentifyLongRuns \/ CallGetLongRunLaps

Spec == Init /\ [][Next]_vars

--------------------------------------------------------------------------
(* What the claims speak of, stated on the tables themselves.              *)

\* The rows of the lap table that belong to the stint key and have a valid time.
ValidIdx(key) ==
    {i \in DOMAIN laps : StintKey(laps[i]) = key
                         /\ laps[i].LapTimeSeconds # NaN /\ laps[i].LapTimeSeconds > 0}

RECURSIVE TimeSum(_)
TimeSum(I) ==
    IF I = {} THEN 0
    ELSE LET i == CHOOSE x \in I : TRUE
         IN  laps[i].LapTimeSeconds + TimeSum(I \ {i})

StintsOfLaps == {StintKey(laps[i]) : i \in DOMAIN laps}
RunIdx(key) == {k \in DOMAIN long_runs : StintKey(long_runs[k]) = key}
LapOf(r) == Lap(r.Team, r.Driver, r.Day, r.Stint, r.LapNumber, r.Compound, r.LapTimeSeconds)

RECURSIVE RatSum(_)
RatSum(s) == IF s = <<>> THEN Rat(0, 1) ELSE RatAdd(s[1], RatSum(Tail(s)))

(* C2: for every min_laps = N a caller passes, identify_long_runs returns  *)
(* exactly one row for each stint with at least N valid laps (and at least *)
(* one), with StintLaps that count and MeanTime their mean, and no row for *)
(* a stint with fewer.                                                     *)
C2_RowsAreStintsWithAtLeastN ==
    (out.op = "identify_long_runs" /\ out.min_laps # <<>>) =>
        LET N == out.min_laps[1]
        IN  /\ \A key \in StintsOfLaps :
                LET n == Cardinality(ValidIdx(key))
                IN  IF n >= N /\ n >= 1
                    THEN /\ Cardinality(RunIdx(key)) = 1
                         /\ \A k \in RunIdx(key) :
                                /\ long_runs[k].StintLaps = n
                                /\ RatEq(long_runs[k].MeanTime, Rat(TimeSum(ValidIdx(key)), n))
                    ELSE RunIdx(key) = {}
            /\ \A k \in DOMAIN long_runs : StintKey(long_runs[k]) \in StintsOfLaps

(* The same for the thresholds N >= 1 only (what the code does do).        *)
C2_HoldsForPositiveN ==
    (out.op = "identify_long_runs" /\ out.min_laps # <<>> /\ out.min_laps # <<0>>)
        => C2_RowsAreStintsWithAtLeastN

(* C3: get_long_run_laps returns, for each long run, exactly the stint's   *)
(* valid laps, ordered by LapNumber and numbered 1..StintLaps without gap  *)
(* or repeat; with no long runs the result has no rows and no columns.     *)
C3_LongRunLapsNumbered ==
    out.op = "get_long_run_laps" =>
        LET rows == out.frame.rows
            RowsOf(key) == {j \in DOMAIN rows : StintKey(rows[j]) = key}
        IN  IF long_runs = <<>>
            THEN out.frame.rows = <<>> /\ out.frame.columns = {}
            ELSE /\ \A j \in DOMAIN rows : RunIdx(StintKey(rows[j])) # {}
                 /\ \A k \in DOMAIN long_runs :
                        LET key == StintKey(long_runs[k])
                            n == long_runs[k].StintLaps
                        IN  /\ Cardinality(RowsOf(key)) = n
                            /\ {rows[j].StintLapNumber : j \in RowsOf(key)} = 1..n
                            /\ \A j1, j2 \in RowsOf(key) :
                                   /\ j1 < j2 => rows[j1].StintLapNumber < rows[j2].StintLapNumber
                                   /\ rows[j1].StintLapNumber < rows[j2].StintLapNumber
                                          => rows[j1].LapNumber <= rows[j2].LapNumber
                            /\ \A j \in RowsOf(key) :
                                   Cardinality({j2 \in RowsOf(key) : LapOf(rows[j2]) = LapOf(rows[j])})
                                     = Cardinality({i \in ValidIdx(key) : laps[i] = LapOf(rows[j])})

\* A long run of two laps that the table holds in decreasing LapNumber, beside
\* an invalid lap of the same stint, has been re-selected.
C3_Witness ==
    /\ out.op = "get_long_run_laps"
    /\ \E k \in DOMAIN long_runs :
          LET key == StintKey(long_runs[k])
          IN  /\ long_runs[k].StintLaps >= 2
              /\ \E i1, i2 \in ValidIdx(key) :
                    i1 < i2 /\ laps[i1].LapNumber > laps[i2].LapNumber
              /\ \E i \in DOMAIN laps :
                    StintKey(laps[i]) = key /\ i \notin ValidIdx(key)

(* C4: every lap's DeltaFromMean is its time minus its own stint's         *)
(* MeanTime, and the deltas of each stint sum to zero.                     *)
C4_DeltaFromOwnStintMean ==
    out.op = "get_long_run_laps" =>
        LET rows == out.frame.rows
        IN  \A k \in DOMAIN long_runs :
                LET key == StintKey(long_runs[k])
                    mine == SelectSeq(rows, LAMBDA r : StintKey(r) = key)
                IN  /\ \A j \in DOMAIN mine :
                        RatEq(mine[j].DeltaFromMean,
                              RatSub(Rat(mine[j].LapTimeSeconds, 1), long_runs[k].MeanTime))
                    /\ RatEq(RatSum([j \in DOMAIN mine |-> mine[j].DeltaFromMean]), Rat(0, 1))

\* Two long runs with different means, one of them with laps that differ in
\* time (so its deltas are not all zero), have been centred.
C4_Witness ==
    /\ out.op = "get_long_run_laps"
    /\ \E j \in DOMAIN out.frame.rows : out.frame.rows[j].DeltaFromMean.num # 0
    /\ \E k1, k2 \in DOMAIN long_runs :
          /\ ~RatEq(long_runs[k1].MeanTime, long_runs[k2].MeanTime)
          /\ long_runs[k1].MinTime # long_runs[k1].MaxTime

(* C10: a retained stint with a single valid lap has an undefined StdTime  *)
(* and an undefined CoV (NaN, not 0), and with min_laps = 1 every such     *)
(* stint is retained; a retained stint with a defined StdTime has          *)
(* CoV = StdTime / MeanTime; every retained stint has                      *)
(* Range = MaxTime - MinTime.                                              *)
C10_CoVNaNForSingleLap ==
    out.op = "identify_long_runs" =>
        /\ \A k \in DOMAIN long_runs :
              LET r == long_runs[k]
              IN  /\ r.StintLaps = 1 => IsNaNRoot(r.StdTime) /\ IsNaNRoot(r.CoV)
                  /\ r.StintLaps >= 2 => ~IsNaNRoot(r.StdTime)
                  /\ ~IsNaNRoot(r.StdTime) =>
                        /\ ~IsNaNRoot(r.CoV)
                        \* CoV^2 * MeanTime^2 = StdTime^2, and CoV >= 0
                        /\ RatEq(RatMul(r.CoV.rad, RatMul(r.MeanTime, r.MeanTime)), r.StdTime.rad)
                  /\ r.Range = r.MaxTime - r.MinTime
        /\ out.min_laps = <<1>> =>
              \A key \in StintsOfLaps :
                  Cardinality(ValidIdx(key)) = 1 => RunIdx(key) # {}

\* identify_long_runs(laps, 1) has retained a single-lap stint beside a stint
\* with a standard deviation that is not zero.
C10_Witness ==
    /\ out.op = "identify_long_runs"
    /\ out.min_laps = <<1>>
    /\ \E k \in DOMAIN long_runs : long_runs[k].StintLaps = 1 /\ IsNaNRoot(long_runs[k].CoV)
    /\ \E k \in DOMAIN long_runs :
          ~IsNaNRoot(long_runs[k].CoV) /\ long_runs[k].CoV.rad.num > 0

--------------------------------------------------------------------------
(* The aggregations (SpecAgg).                                             *)

TeamsWithValidLap ==
    {laps[i].Team : i \in {j \in DOMAIN laps :
        laps[j].LapTimeSeconds # NaN /\ laps[j].LapTimeSeconds > 0}}

(* C1: compute_team_stats of a non-empty lap table has exactly one row for *)
(* each team with a valid lap (not null, > 0) and none for the other teams.*)
C1_OneRowPerTeamWithValidLap ==
    out.op = "compute_team_stats" =>
        /\ Len(out.rows) = Cardinality(TeamsWithValidLap)
        /\ {out.rows[i].Team : i \in DOMAIN out.rows} = TeamsWithValidLap

(* What the code does: one row for each team of the table, valid laps or not. *)
C1_OneRowPerTeamOfTheTable ==
    out.op = "compute_team_stats" =>
        /\ Len(out.rows) = Cardinality({laps[i].Team : i \in DOMAIN laps})
        /\ {out.rows[i].Team : i \in DOMAIN out.rows} = {laps[i].Team : i \in DOMAIN laps}

(* C5: compute_laps_per_team_day has one row per team and one column per   *)
(* day of the table; every (team, day) cell is present, is a natural       *)
(* number and is the number of the team's lap records of that day.         *)
C5_LapsPerTeamDayZeroFilled ==
    out.op = "compute_laps_per_team_day" =>
        LET grid == out.grid
            T == {laps[i].Team : i \in DOMAIN laps}
            D == {laps[i].Day : i \in DOMAIN laps}
        IN  /\ Len(grid.index) = Cardinality(T)
            /\ {grid.index[i] : i \in DOMAIN grid.index} = T
            /\ Len(grid.columns) = Cardinality(D)
            /\ {grid.columns[i] : i \in DOMAIN grid.columns} = D
            /\ DOMAIN grid.values = T
            /\ \A team \in T :
                  /\ DOMAIN grid.values[team] = D
                  /\ \A day \in D :
                        /\ grid.values[team][day] \in Nat
                        /\ grid.values[team][day] =
                              Cardinality({i \in DOMAIN laps :
                                  laps[i].Team = team /\ laps[i].Day = day})

\* A grid with a zero-filled cell beside a cell that counts two laps.
C5_Witness ==
    /\ out.op = "compute_laps_per_team_day"
    /\ \E team \in DOMAIN out.grid.values : \E day \in DOMAIN out.grid.values[team] :
          out.grid.values[team][day] = 0
    /\ \E team \in DOMAIN out.grid.values : \E day \in DOMAIN out.grid.values[team] :
          out.grid.values[team][day] = 2

\* The natural number whose square is n (the CoV values of AggRuns are such).
ISqrt(n) == CHOOSE k \in 0..n : k * k = n
\* Twice the value of a median of square roots.
TwiceMedianCoV(m) == ISqrt(m.lo.num \div m.lo.den) + ISqrt(m.hi.num \div m.hi.den)

(* C8: the rows of compute_team_stats ascend by median, those of           *)
(* compute_consistency_by_team ascend by MedianCoV (an undefined key comes *)
(* last in both), those of compute_total_laps descend by TotalLaps and     *)
(* those of compute_stint_summary descend by TotalStints.                  *)
C8_RowsOrderedByStatistic ==
    /\ out.op = "compute_team_stats" =>
          \A i \in 1..(Len(out.rows) - 1) :
              \/ IsNaNRat(out.rows[i + 1].median)
              \/ /\ ~IsNaNRat(out.rows[i].median)
                 /\ out.rows[i].median.num * out.rows[i + 1].median.den
                       <= out.rows[i + 1].median.num * out.rows[i].median.den
    /\ out.op = "compute_consistency_by_team" =>
          \A i \in 1..(Len(out.rows) - 1) :
              \/ IsNaNRat(out.rows[i + 1].MedianCoV.lo)
              \/ /\ ~IsNaNRat(out.rows[i].MedianCoV.lo)
                 /\ TwiceMedianCoV(out.rows[i].MedianCoV)
                       <= TwiceMedianCoV(out.rows[i + 1].MedianCoV)
    /\ out.op = "compute_total_laps" =>
          \A i \in 1..(Len(out.rows) - 1) :
              out.rows[i].TotalLaps >= out.rows[i + 1].TotalLaps
    /\ out.op = "compute_stint_summary" =>
          \A i \in 1..(Len(out.rows) - 1) :
              out.rows[i].TotalStints >= out.rows[i + 1].TotalStints

\* The sort has moved Ferrari before Alpine: Ferrari's median CoV is the
\* smaller although its lower middle value is the larger.
C8_Witness ==
    /\ out.op = "compute_consistency_by_team"
    /\ Len(out.rows) = 2
    /\ out.rows[1].Team = "Ferrari"
    /\ ~IsNaNRat(out.rows[2].MedianCoV.lo)
    /\ TwiceMedianCoV(out.rows[1].MedianCoV) < TwiceMedianCoV(out.rows[2].MedianCoV)
    /\ out.rows[1].MedianCoV.lo.num > out.rows[2].MedianCoV.lo.num

--------------------------------------------------------------------------
(* The renderers (SpecRender).                                             *)

Returned(r) == r.kind \in {"figure", "None"}
\* None is returned and no figure was created on the way.
Absent(r) == r.kind = "None" /\ "create_figure" \notin {r.calls[i] : i \in DOMAIN r.calls}

\* The laps of the long runs: the valid laps of the stints long_runs names.
LongRunLapIdx == {i \in DOMAIN laps : i \in ValidIdx(StintKey(laps[i]))
                                      /\ RunIdx(StintKey(laps[i])) # {}}

(* C6: plot_long_run_traces and plot_long_runs_by_compound return None,    *)
(* and create no figure, when there are no long runs (the latter also when *)
(* no long-run lap has a compound), plot_consistency_rankings when the     *)
(* consistency table has no rows, and plot_compound_distributions when no  *)
(* lap has a compound.                                                     *)
C6_EmptyInputReturnsNone ==
    /\ (out.op = "plot_long_run_traces" /\ long_runs = <<>>) => Absent(out.result)
    /\ (out.op = "plot_long_runs_by_compound"
          /\ (long_runs = <<>> \/ \A i \in LongRunLapIdx : laps[i].Compound = NoCompound))
          => Absent(out.result)
    /\ (out.op = "plot_consistency_rankings" /\ {long_runs[k].Team : k \in DOMAIN long_runs} = {})
          => Absent(out.result)
    /\ (out.op = "plot_compound_distributions" /\ \A i \in DOMAIN laps : laps[i].Compound = NoCompound)
          => Absent(out.result)
    /\ out.op \in {"plot_long_run_traces", "plot_long_runs_by_compound",
                   "plot_consistency_rankings", "plot_compound_distributions"}
          => Returned(out.result)

\* plot_long_runs_by_compound has returned None for long runs none of whose
\* laps has a compound.
C6_Witness ==
    /\ out.op = "plot_long_runs_by_compound"
    /\ long_runs # <<>>
    /\ LongRunLapIdx # {}
    /\ out.result.kind = "None"

TeamMedian(team) ==
    MedianOf(DropNa(TimesOf(SelectSeq(laps, LAMBDA r : r.Team = team))))
TeamLapCount(team) == Cardinality({i \in DOMAIN laps : laps[i].Team = team})
TeamStints(team) == {StintKey(laps[i]) : i \in {j \in DOMAIN laps : laps[j].Team = team}}
StintLength(key) == Cardinality({i \in DOMAIN laps : StintKey(laps[i]) = key /\ laps[i].LapNumber # NaN})
TeamMaxStint(team) ==
    CHOOSE n \in {StintLength(k) : k \in TeamStints(team)} :
        \A m \in {StintLength(k) : k \in TeamStints(team)} : m <= n
FirstLapWith(compound) ==
    CHOOSE i \in DOMAIN laps :
        laps[i].Compound = compound /\ \A j \in 1..(i - 1) : laps[j].Compound # compound
FixedPlace(compound) == CHOOSE i \in 1..3 : <<"SOFT", "MEDIUM", "HARD">>[i] = compound
CompoundsPresent == {laps[i].Compound : i \in DOMAIN laps} \ {NoCompound}
IsPermutationOf(seq, S) == Len(seq) = Cardinality(S) /\ {seq[i] : i \in DOMAIN seq} = S

--------------------------------------------------------------------------
(* generate_all (SpecGen).                                                 *)

(* C7: generate_all ends in one of two ways.  It returns a dict whose keys *)
(* are exactly the module's three chart names, each mapped to a figure or  *)
(* to None, every renderer having been invoked in turn; or a renderer      *)
(* raises, nothing is returned and no later renderer is invoked.  Until    *)
(* then nothing is returned and the dict holds the keys of the renderers   *)
(* invoked so far.                                                         *)
C7_GenerateAllOutcomes ==
    LET names == IF pc.module = "distributions"
                 THEN <<"team_violins", "compound_distributions", "headline_vs_median">>
                 ELSE IF pc.module = "long_runs"
                 THEN <<"long_run_traces", "consistency_rankings", "long_runs_by_compound">>
                 ELSE <<"laps_heatmap", "total_laps", "stint_lengths">>
    IN  /\ pc.status \in {"idle", "running", "returned", "raised"}
        /\ pc.status = "running" =>
              /\ out = NoCall
              /\ pc.step \in 0..3
              /\ pc.invoked = SubSeq(names, 1, pc.step)
              /\ DOMAIN figures = {names[i] : i \in 1..pc.step}
        /\ pc.status = "returned" =>
              /\ out.op = "generate_all"
              /\ DOMAIN out = {"op", "module", "returned"}
              /\ DOMAIN out.returned = {names[i] : i \in 1..3}
              /\ \A k \in DOMAIN out.returned : out.returned[k].kind \in {"figure", "None"}
              /\ pc.invoked = names
        /\ pc.status = "raised" =>
              /\ out.op = "generate_all"
              /\ DOMAIN out = {"op", "module", "raised"}
              /\ pc.invoked = SubSeq(names, 1, Len(pc.invoked))
              /\ out.raised = pc.invoked[Len(pc.invoked)]

\* long_runs.generate_all has returned a dict in which long_run_traces is None.
C7_Witness ==
    /\ pc.status = "returned"
    /\ pc.module = "long_runs"
    /\ out.returned["long_run_traces"].kind = "None"
    /\ out.returned["consistency_rankings"].kind = "None"

==========================================================================
